---- MODULE Spec2Model ----
(***************************************************************************)
(* StreamPy, src/src/server_logs.py: the bounded recently-watched history  *)
(* (RecentlyWatched, a deque with maxlen) and the grouped comment store    *)
(* (CommentStore, a defaultdict(list)); src/src/media_player.py: Content,  *)
(* Movie and Series.  Each component has its own specification over the    *)
(* same variables; the components share no state.                          *)
(* src/src/recommendations.py: total_duration and kids_profile_filter, two *)
(* pure functions of a list of movie dicts.                                *)
(* src/src/data_engine.py and data_engine_OO.py: the operations that start *)
(* worker processes or a worker thread and join them, and the operations   *)
(* that seed and query the tables of streampy.db.                          *)
(*                                                                         *)
(* Python values are records [type, str, int]; a str is its sequence of    *)
(* characters.  Python lists are objects with identity: the comment store  *)
(* keeps references into a heap of lists, so that a returned list or a     *)
(* shallow copy shares its lists with the store, as in the interpreter.    *)
(***************************************************************************)
EXTENDS Integers, Sequences, FiniteSets, TLC

VARIABLES
    constructed,  \* a RecentlyWatched object exists
    maxlen,       \* RecentlyWatched.history.maxlen
    history,      \* RecentlyWatched.history, left to right
    added,        \* the titles whose add() returned normally, in call order
    evicted,      \* how many items the last add() discarded
    returned,     \* the list the last get_history() returned
    rwCall,       \* the last RecentlyWatched call: [op, arg]
    rwRaised,     \* the exception that call raised, "None" when it returned
    heap,         \* the list objects of the comment store: id -> contents
    comments,     \* CommentStore.comments: [keys (insertion order), ref: key -> id]
    log,          \* the <<video_id, comment>> of every add_comment() that returned
    got,          \* the list the last get_comments() returned: [fresh, ref]
    snap,         \* the dict the last all_comments() returned: [taken, keys, ref]
    snapValue,    \* what that dict held when it was returned: key -> contents
    csCall,       \* the last CommentStore call: [op, video_id, comment]
    csRaised,     \* the exception that call raised, "None" when it returned
    cls,          \* the class of the media object: "none" before construction
    content_id,   \* Content.content_id
    title,        \* Content.title
    stream_key,   \* Content._stream_key
    everSet,      \* a stream_key assignment has returned normally
    lastValidKey, \* the key of the last such assignment
    mpCall,       \* the last media-player call: [op, arg]
    mpRaised,     \* the exception that call raised, "None" when it returned
    mpResult,     \* the value the last stream_key read returned
    printed,      \* the last line play() printed: [text, episode]
    recCall,      \* the last recommendations call: [op, arg (a list of dicts)]
    recRaised,    \* the exception that call raised, "None" when it returned
    recResult,    \* what it returned: [value (an int), list (a list of dicts)]
    wkOp,         \* the running start-and-join operation, "none" when idle
    mainPc,       \* where the calling thread is: [at, i (loop index)]
    worker,       \* the state of each Process / Thread, in creation order
    completed,    \* the completion message of the operation has been printed
    users,        \* table users of streampy.db: [exists, rows (in rowid order)]
    plans,        \* table subscription_plans: [exists, rows]
    seedRuns,     \* how many times fetch_premium_users or seed_users has run
    dbCall,       \* the last database operation
    dbRaised,     \* the exception it raised, "None" when it returned
    dbResult      \* the rows the last Premium query returned

rwVars == <<constructed, maxlen, history, added, evicted, returned, rwCall, rwRaised>>
csVars == <<heap, comments, log, got, snap, snapValue, csCall, csRaised>>
mpVars == <<cls, content_id, title, stream_key, everSet, lastValidKey,
           mpCall, mpRaised, mpResult, printed>>
\* the variables of the components modelled after the two collections
recVars == <<recCall, recRaised, recResult>>
wkVars == <<wkOp, mainPc, worker, completed>>
dbVars == <<users, plans, seedRuns, dbCall, dbRaised, dbResult>>
laterVars == <<mpVars, recVars, wkVars, dbVars>>
vars == <<rwVars, csVars, laterVars>>

----------------------------------------------------------------------------
(* Bounds of the model *)

\* the largest max_items tried besides the default
MaxCap == 3
\* the number of add() calls that return normally in one run
MaxAdds == 5
\* the number of add_comment() calls that return normally in one run
MaxComments == 3
\* the longest list of movies passed to total_duration and kids_profile_filter
MaxMovies == 3
\* the longest list of files given to VideoEncoder
MaxFiles == 3
\* the number of runs of the seeding operations against one database file
MaxRuns == 6
\* the number of accepted adds per class when both classes run side by side
CoreCalls == 1

\* the default of max_items
DefaultMaxItems == 5
\* len(files) in run_video_encoding
NumFiles == 3

----------------------------------------------------------------------------
(* Python values *)

PyStr(s) == [type |-> "str", str |-> s, int |-> 0]
PyInt(n) == [type |-> "int", str |-> <<>>, int |-> n]
PyNone == [type |-> "NoneType", str |-> <<>>, int |-> 0]
PyTrue == [type |-> "bool", str |-> <<>>, int |-> 1]

\* the characters str.strip() removes
Whitespace == {" ", "\t", "\n"}

\* the arguments the calls are tried with: PyNone, a number, the empty string,
\* blank strings, and titles with and without surrounding blanks
ArgValues ==
    { PyNone, PyInt(123), PyStr(<<>>), PyStr(<<" ">>), PyStr(<<"\t", " ">>),
      PyStr(<<"a">>), PyStr(<<"b">>), PyStr(<<" ", "a", " ">>) }

\* the values of max_items the constructor is tried with
CapValues == (-1 .. MaxCap) \cup {DefaultMaxItems}

isinstance_str(v) == v.type = "str"
\* bool is a subclass of int
isinstance_int(v) == v.type \in {"int", "bool"}

RECURSIVE lstrip(_)
lstrip(s) ==
    IF s = <<>> THEN <<>>
    ELSE IF Head(s) \in Whitespace THEN lstrip(Tail(s)) ELSE s

RECURSIVE rstrip(_)
rstrip(s) ==
    IF s = <<>> THEN <<>>
    ELSE IF s[Len(s)] \in Whitespace THEN rstrip(SubSeq(s, 1, Len(s) - 1)) ELSE s

\* str.strip()
strip(v) == PyStr(rstrip(lstrip(v.str)))

\* bool(s) of a str
truthy(v) == v.str # <<>>

----------------------------------------------------------------------------
(* RecentlyWatched *)

\* __init__: the exception the capacity check raises
InitRaisesNever(max_items) == "None"
InitRaises(max_items) ==
    IF max_items <= 0 THEN "ValueError" ELSE "None"

\* add: the exception the validation raises
AddRaisesEmptyOnly(video_title) ==
    IF ~isinstance_str(video_title) THEN "TypeError"
    ELSE IF video_title.str = <<>> THEN "ValueError"
    ELSE "None"
AddRaisesOneKind(video_title) ==
    IF ~isinstance_str(video_title) THEN "ValueError"
    ELSE IF ~truthy(strip(video_title)) THEN "ValueError"
    ELSE "None"
AddRaises(video_title) ==
    IF ~isinstance_str(video_title) THEN "TypeError"
    ELSE IF ~truthy(strip(video_title)) THEN "ValueError"
    ELSE "None"

\* deque.append on a deque with maxlen: a full deque discards its leftmost item
DequeAppendNewest(d, n, x) ==
    IF Len(d) = n THEN SubSeq(d, 1, Len(d) - 1) \o <<x>> ELSE Append(d, x)
DequeAppendUnbounded(d, n, x) == Append(d, x)
DequeAppend(d, n, x) ==
    IF n = 0 THEN d
    ELSE IF Len(d) = n THEN Tail(d) \o <<x>>
    ELSE Append(d, x)

RecentlyWatched_init(max_items) ==
    /\ ~constructed
    /\ rwCall' = [op |-> "__init__", arg |-> PyInt(max_items)]
    /\ rwRaised' = InitRaises(max_items)
    /\ IF InitRaises(max_items) # "None"
       THEN UNCHANGED <<constructed, maxlen, history>>
       ELSE /\ constructed' = TRUE
            /\ maxlen' = max_items
            /\ history' = <<>>
    /\ UNCHANGED <<added, evicted, returned>>
    /\ UNCHANGED <<csVars, laterVars>>

RecentlyWatched_add(video_title) ==
    /\ constructed
    /\ Len(added) < MaxAdds
    /\ rwCall' = [op |-> "add", arg |-> video_title]
    /\ rwRaised' = AddRaises(video_title)
    /\ IF AddRaises(video_title) # "None"
       THEN UNCHANGED <<history, added, evicted>>
       ELSE /\ history' = DequeAppend(history, maxlen, video_title)
            /\ added' = Append(added, video_title)
            /\ evicted' = Len(history) + 1 - Len(history')
    /\ UNCHANGED <<constructed, maxlen, returned>>
    /\ UNCHANGED <<csVars, laterVars>>

RecentlyWatched_get_history ==
    /\ constructed
    /\ rwCall' = [op |-> "get_history", arg |-> PyNone]
    /\ rwRaised' = "None"
    /\ returned' = history
    /\ UNCHANGED <<constructed, maxlen, history, added, evicted>>
    /\ UNCHANGED <<csVars, laterVars>>

----------------------------------------------------------------------------
(* CommentStore *)

\* the video_id and comment arguments the calls are tried with
VideoIds ==
    { PyInt(123), PyStr(<<>>), PyStr(<<" ">>), PyStr(<<"a">>), PyStr(<<"b">>) }
Comments ==
    { PyNone, PyStr(<<>>), PyStr(<<"\t", " ">>), PyStr(<<"x">>), PyStr(<<" ", "y">>) }

\* key in dict
Contains(c, k) == k \in DOMAIN c.ref

\* add_comment: the exception the validation raises, video_id checked first
AddCommentRaises(video_id, comment) ==
    IF ~isinstance_str(video_id) THEN "TypeError"
    ELSE IF ~truthy(strip(video_id)) THEN "ValueError"
    ELSE IF ~isinstance_str(comment) THEN "TypeError"
    ELSE IF ~truthy(strip(comment)) THEN "ValueError"
    ELSE "None"

\* defaultdict(list).__getitem__: a missing key gets a new empty list, which is
\* stored under the key and returned
DefaultDictGetItem(c, h, k) ==
    IF Contains(c, k)
    THEN [comments |-> c, heap |-> h, ref |-> c.ref[k]]
    ELSE [comments |-> [keys |-> Append(c.keys, k),
                        ref |-> c.ref @@ (k :> Len(h) + 1)],
          heap |-> Append(h, <<>>),
          ref |-> Len(h) + 1]

\* list.append on the list object ref
ListAppend(h, ref, x) == [h EXCEPT ![ref] = Append(@, x)]

\* add_comment: [raised, comments, heap] after the call
add_commentEarlyKey(c, h, video_id, comment) ==
    LET bad == ~isinstance_str(video_id) \/ ~truthy(strip(video_id))
        g == DefaultDictGetItem(c, h, video_id)
        raised == AddCommentRaises(video_id, comment)
    IN  IF bad THEN [raised |-> raised, comments |-> c, heap |-> h]
        ELSE IF raised # "None"
        THEN [raised |-> raised, comments |-> g.comments, heap |-> g.heap]
        ELSE [raised |-> "None", comments |-> g.comments,
              heap |-> ListAppend(g.heap, g.ref, comment)]
add_commentOverwrite(c, h, video_id, comment) ==
    LET raised == AddCommentRaises(video_id, comment)
        g == DefaultDictGetItem(c, h, video_id)
    IN  IF raised # "None"
        THEN [raised |-> raised, comments |-> c, heap |-> h]
        ELSE [raised |-> "None", comments |-> g.comments,
              heap |-> [g.heap EXCEPT ![g.ref] = <<comment>>]]
add_comment(c, h, video_id, comment) ==
    LET raised == AddCommentRaises(video_id, comment)
        g == DefaultDictGetItem(c, h, video_id)
    IN  IF raised # "None"
        THEN [raised |-> raised, comments |-> c, heap |-> h]
        ELSE [raised |-> "None", comments |-> g.comments,
              heap |-> ListAppend(g.heap, g.ref, comment)]

\* get_comments: [comments, heap, got] after the call; dict.get returns the
\* stored list itself, or the default, a new empty list, and stores nothing
get_commentsGetItem(c, h, video_id) ==
    LET g == DefaultDictGetItem(c, h, video_id)
    IN  [comments |-> g.comments, heap |-> g.heap,
         got |-> [fresh |-> FALSE, ref |-> g.ref]]
get_comments(c, h, video_id) ==
    IF Contains(c, video_id)
    THEN [comments |-> c, heap |-> h,
          got |-> [fresh |-> FALSE, ref |-> c.ref[video_id]]]
    ELSE [comments |-> c, heap |-> h, got |-> [fresh |-> TRUE, ref |-> 0]]

\* all_comments: dict(self.comments) copies the keys and the references to the
\* lists, not the lists
all_comments(c) == [taken |-> TRUE, keys |-> c.keys, ref |-> c.ref]

\* what a returned list holds now
ListValue(h, g) == IF g.fresh THEN <<>> ELSE h[g.ref]
\* what a returned dict holds now
DictValue(h, d) == [k \in DOMAIN d.ref |-> h[d.ref[k]]]

CommentStore_add_comment(video_id, comment) ==
    LET r == add_comment(comments, heap, video_id, comment)
    IN  /\ Len(log) < MaxComments
        /\ csCall' = [op |-> "add_comment", video_id |-> video_id, comment |-> comment]
        /\ csRaised' = r.raised
        /\ comments' = r.comments
        /\ heap' = r.heap
        /\ log' = IF r.raised = "None" THEN Append(log, <<video_id, comment>>) ELSE log
        /\ UNCHANGED <<got, snap, snapValue>>
        /\ UNCHANGED <<rwVars, laterVars>>

CommentStore_get_comments(video_id) ==
    LET r == get_comments(comments, heap, video_id)
    IN  /\ csCall' = [op |-> "get_comments", video_id |-> video_id, comment |-> PyNone]
        /\ csRaised' = "None"
        /\ comments' = r.comments
        /\ heap' = r.heap
        /\ got' = r.got
        /\ UNCHANGED <<log, snap, snapValue>>
        /\ UNCHANGED <<rwVars, laterVars>>

CommentStore_all_comments ==
    /\ csCall' = [op |-> "all_comments", video_id |-> PyNone, comment |-> PyNone]
    /\ csRaised' = "None"
    /\ snap' = all_comments(comments)
    /\ snapValue' = DictValue(heap, all_comments(comments))
    /\ UNCHANGED <<heap, comments, log, got>>
    /\ UNCHANGED <<rwVars, laterVars>>

----------------------------------------------------------------------------
(* Content, Movie, Series *)

\* the arguments the constructor, the stream_key setter and play are tried with
Classes == {"Content", "Movie", "Series"}
ContentIds == { PyInt(101), PyStr(<<"7">>) }
Titles == { PyStr(<<"T">>), PyStr(<<" ">>), PyNone }
Episodes ==
    { PyInt(-5), PyInt(0), PyInt(1), PyInt(2), PyInt(12),
      PyStr(<<"1">>), PyNone, PyTrue }

\* Content.__init__: the exception the validation raises
ContentInitRaises(id, t) ==
    IF ~isinstance_int(id) THEN "TypeError"
    ELSE IF ~isinstance_str(t) \/ ~truthy(strip(t)) THEN "ValueError"
    ELSE "None"

\* stream_key getter: the exception it raises
GetterRaises(key) == IF key = PyNone THEN "ValueError" ELSE "None"

\* stream_key setter: the exception the validation raises
SetterRaisesTypeOnly(key) ==
    IF ~isinstance_str(key) THEN "ValueError" ELSE "None"
SetterRaises(key) ==
    IF ~isinstance_str(key) \/ ~truthy(strip(key)) THEN "ValueError" ELSE "None"

\* f"{episode:02d}": the decimal digits, padded with zeros to two places
Format02d(n) == IF n < 10 THEN <<0, n>> ELSE <<n \div 10, n % 10>>

NoLine == [text |-> "", episode |-> <<>>]

\* Movie.play: the line printed
MoviePlayPrints(key) ==
    IF key = PyNone
    THEN [text |-> "Cannot play: stream key not set", episode |-> <<>>]
    ELSE [text |-> "Starting Film...", episode |-> <<>>]

\* Series.play: the line printed; the episode is checked before the key
SeriesPlayPrintsFromZero(key, episode) ==
    IF ~isinstance_int(episode) \/ episode.int < 0
    THEN [text |-> "Invalid episode number", episode |-> <<>>]
    ELSE IF key = PyNone
    THEN [text |-> "Cannot play: stream key not set", episode |-> <<>>]
    ELSE [text |-> "Resuming S01E", episode |-> Format02d(episode.int)]
SeriesPlayPrints(key, episode) ==
    IF ~isinstance_int(episode) \/ episode.int < 1
    THEN [text |-> "Invalid episode number", episode |-> <<>>]
    ELSE IF key = PyNone
    THEN [text |-> "Cannot play: stream key not set", episode |-> <<>>]
    ELSE [text |-> "Resuming S01E", episode |-> Format02d(episode.int)]

mpFrame == <<rwVars, csVars, recVars, wkVars, dbVars>>

Content_init(c, id, t) ==
    /\ cls = "none"
    /\ mpCall' = [op |-> "__init__", arg |-> t]
    /\ mpRaised' = ContentInitRaises(id, t)
    /\ IF ContentInitRaises(id, t) # "None"
       THEN UNCHANGED <<cls, content_id, title, stream_key>>
       ELSE /\ cls' = c
            /\ content_id' = id
            /\ title' = t
            /\ stream_key' = PyNone
    /\ UNCHANGED <<everSet, lastValidKey, mpResult, printed>>
    /\ UNCHANGED mpFrame

Content_get_stream_key ==
    /\ cls # "none"
    /\ mpCall' = [op |-> "get", arg |-> PyNone]
    /\ mpRaised' = GetterRaises(stream_key)
    /\ mpResult' = IF GetterRaises(stream_key) = "None" THEN stream_key ELSE mpResult
    /\ UNCHANGED <<cls, content_id, title, stream_key, everSet, lastValidKey, printed>>
    /\ UNCHANGED mpFrame

Content_set_stream_key(key) ==
    /\ cls # "none"
    /\ mpCall' = [op |-> "set", arg |-> key]
    /\ mpRaised' = SetterRaises(key)
    /\ IF SetterRaises(key) # "None"
       THEN UNCHANGED <<stream_key, everSet, lastValidKey>>
       ELSE /\ stream_key' = key
            /\ everSet' = TRUE
            /\ lastValidKey' = key
    /\ UNCHANGED <<cls, content_id, title, mpResult, printed>>
    /\ UNCHANGED mpFrame

Movie_play ==
    /\ cls = "Movie"
    /\ mpCall' = [op |-> "Movie.play", arg |-> PyNone]
    /\ mpRaised' = "None"
    /\ printed' = MoviePlayPrints(stream_key)
    /\ UNCHANGED <<cls, content_id, title, stream_key, everSet, lastValidKey, mpResult>>
    /\ UNCHANGED mpFrame

Series_play(episode) ==
    /\ cls = "Series"
    /\ mpCall' = [op |-> "Series.play", arg |-> episode]
    /\ mpRaised' = "None"
    /\ printed' = SeriesPlayPrints(stream_key, episode)
    /\ UNCHANGED <<cls, content_id, title, stream_key, everSet, lastValidKey, mpResult>>
    /\ UNCHANGED mpFrame

----------------------------------------------------------------------------
(* recommendations: total_duration, kids_profile_filter *)

\* a key the dict does not hold
Absent == [type |-> "absent", str |-> <<>>, int |-> 0]

\* a movie dict, by the two keys the functions read
Movie(rating, duration) == [rating |-> rating, duration |-> duration]

\* the "duration" and "rating" entries the functions are tried with
Durations ==
    { Absent, PyInt(100), PyInt(50), PyInt(-50), PyNone,
      PyStr(<<"2", "0", "0">>), PyStr(<<"a", "b", "c">>) }
Ratings ==
    { Absent, PyStr(<<"R">>), PyStr(<<"r">>), PyStr(<<" ", "R", " ">>),
      PyStr(<<"G">>), PyStr(<<"P", "G">>) }

\* the lists of at most n elements of S
ListsOf(S, n) == UNION { [1 .. k -> S] : k \in 0 .. n }

Playlists == ListsOf({Movie(Absent, d) : d \in Durations}, MaxMovies)
MovieLists == ListsOf({Movie(r, Absent) : r \in Ratings}, MaxMovies)

\* dict.get(key, default), given the entry under key
DictGet(entry, default) == IF entry = Absent THEN default ELSE entry

\* total + x for an int total: defined for int and bool, TypeError otherwise
PyAdd(total, x) ==
    IF isinstance_int(x)
    THEN [raised |-> "None", value |-> total + x.int]
    ELSE [raised |-> "TypeError", value |-> total]

\* functools.reduce(lambda total, movie: total + movie.get("duration", 0),
\* playlist, 0): a left fold that stops at the first exception
RECURSIVE Reduce(_, _)
Reduce(total, playlist) ==
    IF playlist = <<>> THEN [raised |-> "None", value |-> total]
    ELSE LET r == PyAdd(total, DictGet(playlist[1].duration, PyInt(0)))
         IN  IF r.raised # "None" THEN r ELSE Reduce(r.value, Tail(playlist))

total_duration(playlist) == Reduce(0, playlist)

\* str.upper() on the letters used
UpperChar(c) ==
    CASE c = "r" -> "R"
      [] c = "g" -> "G"
      [] c = "p" -> "P"
      [] OTHER -> c
upper(v) == PyStr([i \in 1 .. Len(v.str) |-> UpperChar(v.str[i])])

\* the lambda of kids_profile_filter
KeepsMovie(movie) == upper(DictGet(movie.rating, PyStr(<<>>))) # PyStr(<<"R">>)

\* list(filter(f, movies))
RECURSIVE Filter(_)
Filter(movies) ==
    IF movies = <<>> THEN <<>>
    ELSE IF KeepsMovie(movies[1]) THEN <<movies[1]>> \o Filter(Tail(movies))
    ELSE Filter(Tail(movies))

kids_profile_filter(movies) == Filter(movies)

recFrame == <<rwVars, csVars, mpVars, wkVars, dbVars>>

Call_total_duration(playlist) ==
    /\ recCall' = [op |-> "total_duration", arg |-> playlist]
    /\ recRaised' = total_duration(playlist).raised
    /\ recResult' = [value |-> IF total_duration(playlist).raised = "None"
                               THEN total_duration(playlist).value ELSE 0,
                     list |-> <<>>]
    /\ UNCHANGED recFrame

Call_kids_profile_filter(movies) ==
    /\ recCall' = [op |-> "kids_profile_filter", arg |-> movies]
    /\ recRaised' = "None"
    /\ recResult' = [value |-> 0, list |-> kids_profile_filter(movies)]
    /\ UNCHANGED recFrame

----------------------------------------------------------------------------
(* run_video_encoding / VideoEncoder.start_encoding,                       *)
(* simulate_streaming / SubtitleDownloader.simulate_stream                 *)

\* A worker is "none" before its Process or Thread object exists, "new" once
\* created, "started" after start(), "working" once it has printed its first
\* line and sleeps, "finished" once it has printed its last line and ended.

EncodingOps == {"run_video_encoding", "start_encoding"}
StreamingOps == {"simulate_streaming", "simulate_stream"}

\* Process.join / Thread.join returns once the worker has ended
JoinReturnsAtOnce(w) == TRUE
JoinReturns(w) == w = "finished"

wkFrame == <<rwVars, csVars, mpVars, recVars, dbVars>>

\* data_engine.run_video_encoding: files is the fixed list of three names
Call_run_video_encoding ==
    /\ mainPc.at = "idle"
    /\ wkOp' = "run_video_encoding"
    /\ worker' = [w \in 1 .. NumFiles |-> "none"]
    /\ mainPc' = [at |-> "start", i |-> 1]
    /\ completed' = FALSE
    /\ UNCHANGED wkFrame

\* VideoEncoder(files).start_encoding: the comprehension creates every Process
Call_start_encoding(n) ==
    /\ mainPc.at = "idle"
    /\ wkOp' = "start_encoding"
    /\ worker' = [w \in 1 .. n |-> "new"]
    /\ mainPc' = [at |-> "start", i |-> 1]
    /\ completed' = FALSE
    /\ UNCHANGED wkFrame

\* simulate_streaming / simulate_stream: one Thread is created
Call_simulate_streaming(op) ==
    /\ mainPc.at = "idle"
    /\ wkOp' = op
    /\ worker' = <<"new">>
    /\ mainPc' = [at |-> "start", i |-> 1]
    /\ completed' = FALSE
    /\ UNCHANGED wkFrame

\* one pass of the start loop (run_video_encoding creates the Process in the
\* same pass), or thread.start()
StartWorker ==
    /\ mainPc.at = "start"
    /\ mainPc.i <= Len(worker)
    /\ worker[mainPc.i] = (IF wkOp = "run_video_encoding" THEN "none" ELSE "new")
    /\ worker' = [worker EXCEPT ![mainPc.i] = "started"]
    /\ mainPc' = [mainPc EXCEPT !.i = @ + 1]
    /\ UNCHANGED <<wkOp, completed>>
    /\ UNCHANGED wkFrame

\* the start loop is over: on to the join loop, or to the buffering lines
StartLoopExit ==
    /\ mainPc.at = "start"
    /\ mainPc.i > Len(worker)
    /\ mainPc' = IF wkOp \in EncodingOps THEN [at |-> "join", i |-> 1]
                 ELSE [at |-> "buffering", i |-> 1]
    /\ UNCHANGED <<wkOp, worker, completed>>
    /\ UNCHANGED wkFrame

\* print("[Main] Video buffering..."); time.sleep(1)
PrintBuffering ==
    /\ mainPc.at = "buffering"
    /\ mainPc' = [at |-> "sleeping", i |-> 1]
    /\ UNCHANGED <<wkOp, worker, completed>>
    /\ UNCHANGED wkFrame

\* the sleep ends; print("[Main] Video is now playing!")
PrintPlaying ==
    /\ mainPc.at = "sleeping"
    /\ mainPc' = [at |-> "join", i |-> 1]
    /\ UNCHANGED <<wkOp, worker, completed>>
    /\ UNCHANGED wkFrame

\* p.join() / thread.join() returns
Join ==
    /\ mainPc.at = "join"
    /\ mainPc.i <= Len(worker)
    /\ JoinReturns(worker[mainPc.i])
    /\ mainPc' = [mainPc EXCEPT !.i = @ + 1]
    /\ UNCHANGED <<wkOp, worker, completed>>
    /\ UNCHANGED wkFrame

\* print("[Encoding] All encoding tasks completed.") / print("[Main] All tasks done.")
PrintCompleted ==
    /\ mainPc.at = "join"
    /\ mainPc.i > Len(worker)
    /\ mainPc' = [at |-> "done", i |-> 1]
    /\ completed' = TRUE
    /\ UNCHANGED <<wkOp, worker>>
    /\ UNCHANGED wkFrame

\* the operation returns to its caller
Return ==
    /\ mainPc.at = "done"
    /\ mainPc' = [at |-> "idle", i |-> 1]
    /\ wkOp' = "none"
    /\ worker' = <<>>
    /\ UNCHANGED completed
    /\ UNCHANGED wkFrame

\* encode_video / download_subtitles: the first print, then the sleep
WorkerBegins(w) ==
    /\ w \in 1 .. Len(worker)
    /\ worker[w] = "started"
    /\ worker' = [worker EXCEPT ![w] = "working"]
    /\ UNCHANGED <<wkOp, mainPc, completed>>
    /\ UNCHANGED wkFrame

\* the sleep ends; the last print; the worker ends
WorkerFinishes(w) ==
    /\ w \in 1 .. Len(worker)
    /\ worker[w] = "working"
    /\ worker' = [worker EXCEPT ![w] = "finished"]
    /\ UNCHANGED <<wkOp, mainPc, completed>>
    /\ UNCHANGED wkFrame

----------------------------------------------------------------------------
(* streampy.db: setup_database, fetch_premium_users, seed_users,           *)
(* get_premium_users                                                       *)

\* the rows the seeding operations insert
SeedUsers ==
    << <<1, "Alice", "Premium">>, <<2, "Bob", "Basic">>, <<3, "Charlie", "Premium">> >>

NoTable == [exists |-> FALSE, rows |-> <<>>]

\* CREATE TABLE IF NOT EXISTS
CreateIfNotExists(t) == IF t.exists THEN t ELSE [exists |-> TRUE, rows |-> <<>>]

\* INSERT INTO t VALUES ..., one row after the other; the table has no key
Insert(t, rows) == [t EXCEPT !.rows = @ \o rows]

\* SELECT * FROM users WHERE plan = p, in rowid order
SelectPlan(t, p) == SelectSeq(t.rows, LAMBDA row : row[3] = p)

\* the plans setup_database inserts; id is the autoincremented primary key
SeedPlans(n) == << <<n + 1, "Basic">>, <<n + 2, "Premium">> >>

dbFrame == <<rwVars, csVars, mpVars, recVars, wkVars>>

\* setup_database of both files: create the table, insert only if it is empty
setup_database ==
    /\ dbCall' = "setup_database"
    /\ dbRaised' = "None"
    /\ plans' = LET t == CreateIfNotExists(plans)
                IN  IF Len(t.rows) = 0 THEN Insert(t, SeedPlans(0)) ELSE t
    /\ UNCHANGED <<users, seedRuns, dbResult>>
    /\ UNCHANGED dbFrame

\* data_engine.fetch_premium_users: create, three INSERTs, commit, SELECT
fetch_premium_users ==
    /\ seedRuns < MaxRuns
    /\ dbCall' = "fetch_premium_users"
    /\ dbRaised' = "None"
    /\ users' = Insert(CreateIfNotExists(users), SeedUsers)
    /\ dbResult' = SelectPlan(users', "Premium")
    /\ seedRuns' = seedRuns + 1
    /\ UNCHANGED plans
    /\ UNCHANGED dbFrame

\* DatabaseManager.seed_users: create, insert the rows only if COUNT(*) = 0
seed_users ==
    /\ seedRuns < MaxRuns
    /\ dbCall' = "seed_users"
    /\ dbRaised' = "None"
    /\ users' = LET t == CreateIfNotExists(users)
                IN  IF Len(t.rows) = 0 THEN Insert(t, SeedUsers) ELSE t
    /\ seedRuns' = seedRuns + 1
    /\ UNCHANGED <<plans, dbResult>>
    /\ UNCHANGED dbFrame

\* DatabaseManager.get_premium_users: the SELECT fails when there is no table
get_premium_users ==
    /\ dbCall' = "get_premium_users"
    /\ dbRaised' = IF users.exists THEN "None" ELSE "OperationalError"
    /\ dbResult' = IF users.exists THEN SelectPlan(users, "Premium") ELSE dbResult
    /\ UNCHANGED <<users, plans, seedRuns>>
    /\ UNCHANGED dbFrame

----------------------------------------------------------------------------
(* Specifications *)

InitRW ==
    /\ constructed = FALSE
    /\ maxlen = 0
    /\ history = <<>>
    /\ added = <<>>
    /\ evicted = 0
    /\ returned = <<>>
    /\ rwCall = [op |-> "none", arg |-> PyNone]
    /\ rwRaised = "None"

InitCS ==
    /\ heap = <<>>
    /\ comments = [keys |-> <<>>, ref |-> <<>>]
    /\ log = <<>>
    /\ got = [fresh |-> TRUE, ref |-> 0]
    /\ snap = [taken |-> FALSE, keys |-> <<>>, ref |-> <<>>]
    /\ snapValue = <<>>
    /\ csCall = [op |-> "none", video_id |-> PyNone, comment |-> PyNone]
    /\ csRaised = "None"

InitMP ==
    /\ cls = "none"
    /\ content_id = PyNone
    /\ title = PyNone
    /\ stream_key = PyNone
    /\ everSet = FALSE
    /\ lastValidKey = PyNone
    /\ mpCall = [op |-> "none", arg |-> PyNone]
    /\ mpRaised = "None"
    /\ mpResult = PyNone
    /\ printed = NoLine

InitRec ==
    /\ recCall = [op |-> "none", arg |-> <<>>]
    /\ recRaised = "None"
    /\ recResult = [value |-> 0, list |-> <<>>]

InitWk ==
    /\ wkOp = "none"
    /\ mainPc = [at |-> "idle", i |-> 1]
    /\ worker = <<>>
    /\ completed = FALSE

\* a database file without tables
InitDb ==
    /\ users = NoTable
    /\ plans = NoTable
    /\ seedRuns = 0
    /\ dbCall = "none"
    /\ dbRaised = "None"
    /\ dbResult = <<>>

Init == InitRW /\ InitCS /\ InitMP /\ InitRec /\ InitWk /\ InitDb

NextRW ==
    \/ \E max_items \in CapValues : RecentlyWatched_init(max_items)
    \/ \E video_title \in ArgValues : RecentlyWatched_add(video_title)
    \/ RecentlyWatched_get_history

SpecRW == Init /\ [][NextRW]_vars

NextCS ==
    \/ \E video_id \in VideoIds, comment \in Comments :
          CommentStore_add_comment(video_id, comment)
    \/ \E video_id \in VideoIds : CommentStore_get_comments(video_id)
    \/ CommentStore_all_comments

SpecCS == Init /\ [][NextCS]_vars

\* the two classes used side by side, each with at most CoreCalls accepted adds
NextCore ==
    \/ \E max_items \in CapValues : RecentlyWatched_init(max_items)
    \/ \E video_title \in ArgValues :
          Len(added) < CoreCalls /\ RecentlyWatched_add(video_title)
    \/ RecentlyWatched_get_history
    \/ \E video_id \in VideoIds, comment \in Comments :
          Len(log) < CoreCalls /\ CommentStore_add_comment(video_id, comment)
    \/ \E video_id \in VideoIds : CommentStore_get_comments(video_id)
    \/ CommentStore_all_comments

SpecCore == Init /\ [][NextCore]_vars

NextMP ==
    \/ \E c \in Classes, id \in ContentIds, t \in Titles : Content_init(c, id, t)
    \/ Content_get_stream_key
    \/ \E key \in ArgValues : Content_set_stream_key(key)
    \/ Movie_play
    \/ \E episode \in Episodes : Series_play(episode)

SpecMP == Init /\ [][NextMP]_vars

NextRec ==
    \/ \E playlist \in Playlists : Call_total_duration(playlist)
    \/ \E movies \in MovieLists : Call_kids_profile_filter(movies)

SpecRec == Init /\ [][NextRec]_vars

WorkerIds == 1 .. (IF MaxFiles > NumFiles THEN MaxFiles ELSE NumFiles)

\* the steps of the calling thread inside an operation
MainStep ==
    \/ StartWorker
    \/ StartLoopExit
    \/ PrintBuffering
    \/ PrintPlaying
    \/ Join
    \/ PrintCompleted

NextWk ==
    \/ Call_run_video_encoding
    \/ \E n \in 0 .. MaxFiles : Call_start_encoding(n)
    \/ \E op \in StreamingOps : Call_simulate_streaming(op)
    \/ MainStep
    \/ Return
    \/ \E w \in WorkerIds : WorkerBegins(w)
    \/ \E w \in WorkerIds : WorkerFinishes(w)

\* the calling thread keeps running, and every started worker runs to its end
\* (its body is two prints and a sleep)
SpecWk ==
    /\ Init /\ [][NextWk]_vars
    /\ WF_vars(MainStep)
    /\ \A w \in WorkerIds : WF_vars(WorkerBegins(w)) /\ WF_vars(WorkerFinishes(w))

NextDb ==
    \/ setup_database
    \/ fetch_premium_users
    \/ seed_users
    \/ get_premium_users

SpecDb == Init /\ [][NextDb]_vars

----------------------------------------------------------------------------
(* Properties *)

Min(a, b) == IF a <= b THEN a ELSE b

\* the last k elements of s
LastN(s, k) == SubSeq(s, Len(s) - k + 1, Len(s))

\* a str with no character other than whitespace (the empty str included)
IsBlank(v) == \A i \in 1 .. Len(v.str) : v.str[i] \in Whitespace

\* the last step was a call of op that returned normally
RwReturned(op) == rwCall.op = op /\ rwRaised = "None"

\* the comments logged under key k, in call order
RECURSIVE LoggedUnder(_, _)
LoggedUnder(l, k) ==
    IF l = <<>> THEN <<>>
    ELSE IF l[1][1] = k THEN <<l[1][2]>> \o LoggedUnder(Tail(l), k)
    ELSE LoggedUnder(Tail(l), k)

\* the keys of the accepted add_comment calls
LoggedKeys == {log[i][1] : i \in 1 .. Len(log)}

\* C1: after n accepted adds on a fresh buffer of capacity c the history, and
\* the list get_history() returns, is the last min(n, c) added titles in add
\* order; an accepted add to a full buffer drops exactly the oldest held title
\* and keeps the order of the rest.
C1_HistoryIsLastAdded ==
    /\ [](constructed =>
            /\ history = LastN(added, Min(Len(added), maxlen))
            /\ Len(history) = Min(Len(added), maxlen)
            /\ RwReturned("get_history") =>
                 /\ returned = LastN(added, Min(Len(added), maxlen))
                 /\ Len(returned) = Min(Len(added), maxlen))
    /\ [][(rwCall'.op = "add" /\ rwRaised' = "None" /\ Len(history) = maxlen) =>
            history' = Tail(history) \o <<rwCall'.arg>>]_vars

\* C1 witness: get_history() on a buffer of capacity 2 or more that has evicted
C1_Witness ==
    /\ constructed /\ maxlen >= 2 /\ Len(added) >= maxlen + 2
    /\ RwReturned("get_history") /\ Len(returned) = maxlen
    /\ added[1] # added[Len(added)]

\* C2: the buffer never holds more than the capacity fixed at construction, and
\* one add discards no item or one item.
C2_AtMostCapacity ==
    constructed => /\ Len(history) <= maxlen
                   /\ evicted \in {0, 1}

\* C2 witness: a rejected add on a full buffer whose last accepted add evicted
C2_Witness ==
    /\ constructed /\ Len(history) = maxlen /\ evicted = 1
    /\ rwCall.op = "add" /\ rwRaised # "None"
    /\ returned # <<>>

\* C3: construction with a capacity <= 0 raises ValueError and yields no
\* buffer; with a capacity > 0 it returns a buffer of that capacity whose
\* history is empty.
C3_ConstructionChecksCapacity ==
    rwCall.op = "__init__" =>
        IF rwCall.arg.int <= 0
        THEN rwRaised = "ValueError" /\ ~constructed
        ELSE /\ rwRaised = "None" /\ constructed
             /\ maxlen = rwCall.arg.int /\ history = <<>>

\* C3 witness: the constructor was called with capacity 0
C3_Witness ==
    rwCall.op = "__init__" /\ rwCall.arg.int = 0 /\ ~constructed

\* C4 as stated: add fails exactly when the item is the empty string or not a
\* string.
C4_FailsIffEmptyOrNotStr ==
    rwCall.op = "add" =>
        (rwRaised # "None" <=>
            (rwCall.arg.type # "str" \/ rwCall.arg.str = <<>>))

\* C4 amended: add fails exactly when the item is not a string or is a string
\* that is empty or holds only whitespace; it appends in every other case, and
\* a failed add leaves the history as it was.
C4_FailsIffBlankOrNotStr ==
    [][rwCall'.op = "add" =>
         IF rwCall'.arg.type # "str" \/ IsBlank(rwCall'.arg)
         THEN rwRaised' # "None" /\ history' = history /\ added' = added
         ELSE /\ rwRaised' = "None"
              /\ history' # <<>> /\ history'[Len(history')] = rwCall'.arg
              /\ added' = Append(added, rwCall'.arg)]_vars

\* C4 witness: a whitespace-only title was rejected on a non-empty history
C4_Witness ==
    /\ rwCall.op = "add" /\ rwCall.arg = PyStr(<<" ">>)
    /\ rwRaised = "ValueError" /\ history # <<>>

\* C5 as stated: there is one error kind that every rejected call raises.
C5_OneErrorKind ==
    \E kind \in {"TypeError", "ValueError"} :
        rwRaised \in {"None", kind} /\ csRaised \in {"None", kind}

\* C5 amended: a rejected call raises TypeError when the first argument found
\* invalid is not a string and ValueError when it is an empty or
\* whitespace-only string (add_comment checks video_id, then comment); a
\* non-positive capacity raises ValueError.
C5_TwoErrorKinds ==
    /\ (rwCall.op = "__init__" /\ rwCall.arg.int <= 0) => rwRaised = "ValueError"
    /\ rwCall.op = "add" =>
         /\ rwCall.arg.type # "str" => rwRaised = "TypeError"
         /\ (rwCall.arg.type = "str" /\ IsBlank(rwCall.arg)) => rwRaised = "ValueError"
    /\ csCall.op = "add_comment" =>
         LET idOk == csCall.video_id.type = "str" /\ ~IsBlank(csCall.video_id)
         IN  /\ csCall.video_id.type # "str" => csRaised = "TypeError"
             /\ (csCall.video_id.type = "str" /\ IsBlank(csCall.video_id)) =>
                  csRaised = "ValueError"
             /\ (idOk /\ csCall.comment.type # "str") => csRaised = "TypeError"
             /\ (idOk /\ csCall.comment.type = "str" /\ IsBlank(csCall.comment)) =>
                  csRaised = "ValueError"
    /\ rwRaised \in {"None", "TypeError", "ValueError"}
    /\ csRaised \in {"None", "TypeError", "ValueError"}

\* C5 witness: a wrong-typed title and an empty comment were both rejected
C5_Witness ==
    /\ rwCall.op = "add" /\ rwCall.arg.type # "str" /\ rwRaised = "TypeError"
    /\ csCall.op = "add_comment" /\ csCall.comment = PyStr(<<>>)
    /\ csRaised = "ValueError"

\* C6: the list stored under a key, and the list get_comments(k) returns, is
\* exactly the comments of the accepted add_comment(k, ..) calls in call order;
\* a key with no accepted add reads as the empty list.
C6_CommentsPerKeyInOrder ==
    /\ \A k \in VideoIds :
         ListValue(heap, get_comments(comments, heap, k).got) = LoggedUnder(log, k)
    /\ csCall.op = "get_comments" =>
         ListValue(heap, got) = LoggedUnder(log, csCall.video_id)

\* C6 witness: get_comments returned two comments while another key holds one
C6_Witness ==
    /\ csCall.op = "get_comments" /\ Len(ListValue(heap, got)) = 2
    /\ \E k \in LoggedKeys : k # csCall.video_id

\* C7: get_comments on a key with no accepted add returns an empty list and
\* leaves the store, and so the key set of all_comments(), as it was.
C7_ReadOfUnseenKeyChangesNothing ==
    [][(csCall'.op = "get_comments" /\ csCall'.video_id \notin LoggedKeys) =>
         /\ ListValue(heap', got') = <<>>
         /\ comments' = comments /\ heap' = heap
         /\ all_comments(comments').keys = all_comments(comments).keys]_vars

\* C7 witness: an unseen key was read from a store that holds another key
C7_Witness ==
    /\ csCall.op = "get_comments" /\ csCall.video_id = PyStr(<<"b">>)
    /\ csCall.video_id \notin LoggedKeys /\ LoggedKeys # {}
    /\ ListValue(heap, got) = <<>>

\* C8: every key of the store maps to a non-empty list.
C8_NoEmptyGroup ==
    \A k \in DOMAIN comments.ref : heap[comments.ref[k]] # <<>>

\* C8 witness: the store holds two keys, an absent key was read and
\* all_comments() was called
C8_Witness ==
    /\ Cardinality(DOMAIN comments.ref) = 2
    /\ csCall.op = "get_comments" /\ ~Contains(comments, csCall.video_id)
    /\ snap.taken

\* C9: add_comment with an empty or wrong-typed video_id or comment raises and
\* changes nothing: no key is created and no comment appended.
C9_RejectedAddHasNoEffect ==
    [][(/\ csCall'.op = "add_comment"
        /\ \/ csCall'.video_id.type # "str" \/ csCall'.video_id.str = <<>>
           \/ csCall'.comment.type # "str" \/ csCall'.comment.str = <<>>) =>
         /\ csRaised' # "None"
         /\ comments' = comments /\ heap' = heap /\ log' = log]_vars

\* C9 witness: a new valid key with an empty comment was rejected
C9_Witness ==
    /\ csCall.op = "add_comment" /\ csCall.video_id = PyStr(<<"b">>)
    /\ csCall.comment = PyStr(<<>>) /\ csRaised = "ValueError"
    /\ ~Contains(comments, csCall.video_id) /\ log # <<>>

\* C10: the dict all_comments() returned holds what it held when it was
\* returned, whatever add_comment calls follow.
C10_SnapshotUnchanged ==
    snap.taken => DictValue(heap, snap) = snapValue

\* C11: reading the stream key raises ValueError as long as no valid key was
\* ever set; setting "" or None raises ValueError and leaves the stored key as
\* it was; setting a non-blank string stores it, and a read after that returns
\* the most recently validly set key.
C11_StreamKeySetGet ==
    /\ [](mpCall.op = "get" =>
            IF ~everSet THEN mpRaised = "ValueError"
            ELSE mpRaised = "None" /\ mpResult = lastValidKey)
    /\ [][(mpCall'.op = "set" /\ mpCall'.arg \in {PyStr(<<>>), PyNone}) =>
            mpRaised' = "ValueError" /\ stream_key' = stream_key]_vars
    /\ [][(mpCall'.op = "set" /\ mpCall'.arg.type = "str" /\ ~IsBlank(mpCall'.arg)) =>
            /\ mpRaised' = "None"
            /\ stream_key' = mpCall'.arg /\ lastValidKey' = mpCall'.arg]_vars

\* C11 witness: a read returned the valid key "b"
C11_Witness ==
    /\ mpCall.op = "get" /\ mpRaised = "None" /\ everSet
    /\ mpResult = PyStr(<<"b">>) /\ lastValidKey = PyStr(<<"b">>)

\* C12: Series.play with an episode that is not an integer or is below 1
\* returns without raising and plays nothing, with or without a stream key;
\* no play call changes content_id, title or the stream key.
C12_InvalidEpisodeRejected ==
    /\ [](mpCall.op = "Series.play" =>
            /\ mpRaised = "None"
            /\ (mpCall.arg.type \notin {"int", "bool"} \/ mpCall.arg.int <= 0) =>
                 printed.text = "Invalid episode number")
    /\ [][mpCall'.op \in {"Movie.play", "Series.play"} =>
            /\ mpRaised' = "None"
            /\ content_id' = content_id /\ title' = title
            /\ stream_key' = stream_key]_vars

\* C12 witness: episode 0 was rejected on a series whose stream key is set
C12_Witness ==
    /\ mpCall.op = "Series.play" /\ mpCall.arg = PyInt(0)
    /\ stream_key # PyNone /\ printed.text = "Invalid episode number"

\* the number a string of decimal digits denotes, -1 for any other string
RECURSIVE DigitsValue(_, _)
DigitsValue(str, acc) ==
    IF str = <<>> THEN acc
    ELSE LET d == CASE str[1] = "0" -> 0 [] str[1] = "1" -> 1 [] str[1] = "2" -> 2
                    [] str[1] = "3" -> 3 [] str[1] = "4" -> 4 [] str[1] = "5" -> 5
                    [] str[1] = "6" -> 6 [] str[1] = "7" -> 7 [] str[1] = "8" -> 8
                    [] str[1] = "9" -> 9 [] OTHER -> -1
         IN  IF d < 0 THEN -1 ELSE DigitsValue(Tail(str), 10 * acc + d)

\* what one entry counts for: 0 when missing, None, non-numeric or negative
CountedDuration(d) ==
    IF d.type \in {"int", "bool"} THEN (IF d.int < 0 THEN 0 ELSE d.int)
    ELSE IF d.type = "str" /\ d.str # <<>> /\ DigitsValue(d.str, 0) >= 0
    THEN DigitsValue(d.str, 0)
    ELSE 0

RECURSIVE CountedTotal(_)
CountedTotal(playlist) ==
    IF playlist = <<>> THEN 0
    ELSE CountedDuration(playlist[1].duration) + CountedTotal(Tail(playlist))

\* C13: total_duration never fails and returns the sum of the entries'
\* durations, a missing, None, non-numeric or negative duration counting as 0
\* and a numeric string as its number.
C13_TotalDurationLenient ==
    recCall.op = "total_duration" =>
        /\ recRaised = "None"
        /\ recResult.value = CountedTotal(recCall.arg)

\* a rating that is "R" once case and surrounding whitespace are ignored
IsRatedR(rating) ==
    /\ rating.type = "str"
    /\ rstrip(lstrip(rating.str)) \in {<<"R">>, <<"r">>}

RECURSIVE NotRatedR(_)
NotRatedR(movies) ==
    IF movies = <<>> THEN <<>>
    ELSE IF IsRatedR(movies[1].rating) THEN NotRatedR(Tail(movies))
    ELSE <<movies[1]>> \o NotRatedR(Tail(movies))

\* C14: kids_profile_filter returns, in their original order, exactly the
\* movies whose rating is not "R" ignoring case and surrounding whitespace; a
\* movie without a rating is kept.
C14_KidsFilterIgnoresCaseAndSpace ==
    recCall.op = "kids_profile_filter" =>
        /\ recRaised = "None"
        /\ recResult.list = NotRatedR(recCall.arg)

\* C15: the completion message is printed only after every worker has
\* finished, every worker is started before the first join, and an operation
\* whose workers all end reaches its completion message.
C15_CompletedAfterAllWorkers ==
    /\ []((completed /\ wkOp # "none") =>
            \A w \in 1 .. Len(worker) : worker[w] = "finished")
    /\ [](mainPc.at \in {"join", "done"} =>
            \A w \in 1 .. Len(worker) : worker[w] \notin {"none", "new"})
    /\ (wkOp # "none") ~> (mainPc.at = "done" /\ completed)

\* C15 witness: run_video_encoding printed its completion message with its
\* three workers finished
C15_Witness ==
    /\ wkOp = "run_video_encoding" /\ mainPc.at = "done" /\ completed
    /\ Len(worker) = NumFiles
    /\ \A w \in 1 .. Len(worker) : worker[w] = "finished"

\* C16: after one or more runs of the seeding operations against the same
\* database the users table holds exactly the three seed rows, and the Premium
\* query returns the Alice and Charlie rows, each once.
C16_SeededOnce ==
    seedRuns >= 1 =>
        /\ users.exists
        /\ users.rows = SeedUsers
        /\ (dbCall \in {"fetch_premium_users", "get_premium_users"}) =>
             /\ dbRaised = "None"
             /\ dbResult = << <<1, "Alice", "Premium">>, <<3, "Charlie", "Premium">> >>

====
